---- MODULE Spec2Model ----
\* Credential store and session handling of the school fees application
\* (src/app.py): users.json, st.session_state, sign-up, login, logout and
\* the user-management handlers, with the 30-day trial window.
EXTENDS Integers, Sequences, FiniteSets, TLC

\* ---------------------------------------------------------------------
\* Values
\* ---------------------------------------------------------------------

\* Python's None where the other values are strings.
None == "<None>"

\* Python's None where the other values are tuples or numbers.
NoneT == <<>>

\* Truth value of a Python string-or-None ("not x" is true of None and "").
Truthy(x) == x # None /\ x # ""

\* "system" is also what create_user records as the creator of an account
\* made outside any session.
Usernames == {"alice", "system"}

Passwords == {"pw1", "pw2"}

SchoolNames == {"Green Valley"}

\* "a@gmail.com"
EmailA == <<"a", "@", "g", "m", "a", "i", "l", ".", "c", "o", "m">>

\* "b@gmail.com"
EmailB == <<"b", "@", "g", "m", "a", "i", "l", ".", "c", "o", "m">>

\* "a@yahoo.com"
EmailYahoo == <<"a", "@", "y", "a", "h", "o", "o", ".", "c", "o", "m">>

\* "" (text input left empty)
EmailEmpty == <<>>

ValidEmails == {EmailA, EmailB}

InvalidEmails == {EmailYahoo}

\* ---------------------------------------------------------------------
\* Time: the clock counts whole seconds; timestamps are stored as text
\* "%Y-%m-%d %H:%M:%S", modelled as <<day, second of day>>.
\* ---------------------------------------------------------------------

SecsPerDay == 86400

TrialDays == 30

\* Seconds past the end of the first trial that the clock is followed for.
MaxSec == 1

\* datetime.strftime("%Y-%m-%d %H:%M:%S")
StrFTime(t) == <<t \div SecsPerDay, t % SecsPerDay>>

\* datetime.strptime(s, "%Y-%m-%d %H:%M:%S")
StrPTime(s) == s[1] * SecsPerDay + s[2]

\* A span of n hours where n days were meant.
TimeDeltaHours(n) == n * 3600

\* timedelta(days=n)
TimeDelta(n) == n * SecsPerDay

\* ---------------------------------------------------------------------
\* Pure helpers
\* ---------------------------------------------------------------------

\* sha256(password).hexdigest(): a digest distinct from the password and
\* distinct for distinct passwords.
hash_password(password) == <<"sha256", password>>

\* A comparison that looks at the kind of digest only.
verify_password_kind(stored_password, provided_password) ==
    stored_password[1] = "sha256"

verify_password(stored_password, provided_password) ==
    stored_password = <<"sha256", provided_password>>

\* Characters of the class [a-zA-Z0-9._%+-] that occur in the model's inputs.
LocalChars == {"a", "b", "c", "g", "h", "i", "l", "m", "o", "y", "A", "B",
               "0", "1", ".", "_", "%", "+", "-"}

GmailSuffix == <<"@", "g", "m", "a", "i", "l", ".", "c", "o", "m">>

\* A pattern that asks for an "@" and no particular domain.
validate_email_any_domain(email) ==
    \E i \in 1..Len(email) : email[i] = "@" /\ i > 1

\* re.match(r'^[a-zA-Z0-9._%+-]+@gmail\.com$', email): a non-empty local
\* part of class characters followed by "@gmail.com".
FullMatch(email) ==
    /\ Len(email) > Len(GmailSuffix)
    /\ SubSeq(email, Len(email) - Len(GmailSuffix) + 1, Len(email)) = GmailSuffix
    /\ \A i \in 1..(Len(email) - Len(GmailSuffix)) : email[i] \in LocalChars

\* Python's "$" also matches just before one trailing newline.
validate_email(email) ==
    \/ FullMatch(email)
    \/ /\ Len(email) > 0
       /\ email[Len(email)] = "\n"
       /\ FullMatch(SubSeq(email, 1, Len(email) - 1))

\* ---------------------------------------------------------------------
\* School files
\* ---------------------------------------------------------------------

\* The school names that own a ledger: the school of the sign-up forms and
\* another school, whose name differs in a capital letter and a hyphen.
LedgerSchools == {"Green Valley", "green-valley"}

\* The characters of a school name, as Python iterates over the string.
SchoolChars(school_name) ==
    CASE school_name = "Green Valley" ->
            <<"G", "r", "e", "e", "n", " ", "V", "a", "l", "l", "e", "y">>
      [] school_name = "green-valley" ->
            <<"g", "r", "e", "e", "n", "-", "v", "a", "l", "l", "e", "y">>

UpperLetters == <<"A", "B", "C", "D", "E", "F", "G", "H", "I", "J", "K", "L", "M",
                  "N", "O", "P", "Q", "R", "S", "T", "U", "V", "W", "X", "Y", "Z">>

LowerLetters == <<"a", "b", "c", "d", "e", "f", "g", "h", "i", "j", "k", "l", "m",
                  "n", "o", "p", "q", "r", "s", "t", "u", "v", "w", "x", "y", "z">>

DigitChars == <<"0", "1", "2", "3", "4", "5", "6", "7", "8", "9">>

Range(s) == {s[i] : i \in DOMAIN s}

Digits == Range(DigitChars)

Alnum == Range(UpperLetters) \cup Range(LowerLetters) \cup Digits

\* str.lower on one character.
Lower(c) ==
    IF \E i \in DOMAIN UpperLetters : UpperLetters[i] = c
    THEN LowerLetters[CHOOSE i \in DOMAIN UpperLetters : UpperLetters[i] = c]
    ELSE c

\* str.isalnum on one character.
IsAlnum(c) == c \in Alnum

RECURSIVE LowerAll(_)
LowerAll(s) == IF s = <<>> THEN <<>> ELSE <<Lower(Head(s))>> \o LowerAll(Tail(s))

\* The two file names of a school: the name lower-cased, without the characters
\* that are not letters or digits.
get_admin_files(school_name) ==
    IF ~Truthy(school_name)
    THEN [fees_csv |-> NoneT, student_fees_json |-> NoneT]
    ELSE LET safe_school_name == SelectSeq(LowerAll(SchoolChars(school_name)), IsAlnum)
         IN [fees_csv |-> <<"fees_data_">> \o safe_school_name \o <<".csv">>,
             student_fees_json |-> <<"student_fees_">> \o safe_school_name \o <<".json">>]

\* get_admin_files of every school name, worked out once.
AdminFiles == [sn \in LedgerSchools |-> get_admin_files(sn)]

\* The ledger file of a session: that of its school name.
fees_csv(school_name) == AdminFiles[school_name].fees_csv

\* The ledger files there can be.
CsvFiles == {AdminFiles[sn].fees_csv : sn \in LedgerSchools}

\* ---------------------------------------------------------------------
\* Students, dates and ledger rows
\* ---------------------------------------------------------------------

\* The students the forms are filled in for: (Student Name, Class Category).
Students == {<<"Ali Khan", "Class 3">>, <<"Ali Khan", "Class 9">>, <<"Hassan Ali", "KGI">>}

\* md5("<name>_<class>").hexdigest()[:8].upper() of these students.
generate_student_id(student_name, class_category) ==
    CASE <<student_name, class_category>> = <<"Ali Khan", "Class 3">> ->
            <<"4", "B", "5", "8", "D", "0", "3", "1">>
      [] <<student_name, class_category>> = <<"Ali Khan", "Class 9">> ->
            <<"9", "7", "2", "8", "2", "0", "5", "2">>
      [] <<student_name, class_category>> = <<"Hassan Ali", "KGI">> ->
            <<"0", "1", "3", "2", "4", "8", "7", "4">>

StudentIds == {generate_student_id(s[1], s[2]) : s \in Students}

all_months == <<"APRIL", "MAY", "JUNE", "JULY", "AUGUST", "SEPTEMBER",
                "OCTOBER", "NOVEMBER", "DECEMBER", "JANUARY", "FEBRUARY", "MARCH">>

\* The last calendar year a payment is dated in.
MaxYear == 2025

Years == (MaxYear - 1)..MaxYear

\* calendar.monthrange(year, month)[1]
DaysIn(year, month) ==
    IF month = 2 THEN (IF year % 4 = 0 /\ (year % 100 # 0 \/ year % 400 = 0) THEN 29 ELSE 28)
    ELSE IF month \in {4, 6, 9, 11} THEN 30 ELSE 31

\* datetime.date values: every day of these years.
Dates == {dt \in [year : Years, month : 1..12, day : 1..31] :
             dt.day <= DaysIn(dt.year, dt.month)}

\* str(n) of a natural number.
RECURSIVE Str(_)
Str(n) == IF n < 10 THEN <<DigitChars[n + 1]>>
          ELSE Str(n \div 10) \o <<DigitChars[(n % 10) + 1]>>

\* An academic year that starts in May.
get_academic_year_from_may(date) ==
    IF date.month > 4
    THEN Str(date.year) \o <<"-">> \o Str(date.year + 1)
    ELSE Str(date.year - 1) \o <<"-">> \o Str(date.year)

get_academic_year(date) ==
    IF date.month >= 4
    THEN Str(date.year) \o <<"-">> \o Str(date.year + 1)
    ELSE Str(date.year - 1) \o <<"-">> \o Str(date.year)

\* ---------------------------------------------------------------------
\* The ledger file and pandas
\* ---------------------------------------------------------------------

\* A row of the CSV file, with the columns the fee rules read and the two
\* columns load_data rewrites: ID, Academic Year, Date and Entry Timestamp as
\* the text in the file, the three amounts as numbers.
Row(id, month, monthly_fee, annual_charges, admission_fee, academic_year, date, entry_timestamp) ==
    [ID |-> id, Month |-> month, Monthly_Fee |-> monthly_fee,
     Annual_Charges |-> annual_charges, Admission_Fee |-> admission_fee,
     Academic_Year |-> academic_year, Date |-> date,
     Entry_Timestamp |-> entry_timestamp]

IsDigits(s) == s # <<>> /\ \A i \in DOMAIN s : s[i] \in Digits

\* str(int(s)) of a string of digits: the leading zeros go.
RECURSIVE StripZeros(_)
StripZeros(s) == IF Len(s) > 1 /\ Head(s) = "0" THEN StripZeros(Tail(s)) ELSE s

\* A cell of the ID column of a DataFrame: a Python str, or an int64 shown by
\* its decimal text.
StrCell(s) == [num |-> FALSE, text |-> s]

IntCell(s) == [num |-> TRUE, text |-> StripZeros(s)]

\* The text of a date: its numbers in the order the format prints them.
strftime(date, format) ==
    CASE format = "%Y-%m-%d" -> <<date.year, date.month, date.day>>
      [] format = "%d-%m-%Y" -> <<date.day, date.month, date.year>>
      [] format = "%m-%d-%Y" -> <<date.month, date.day, date.year>>

\* Whether three numbers are a day of the calendar.
IsDate(year, month, day) ==
    /\ year > 31
    /\ month \in 1..12
    /\ day \in 1..DaysIn(year, month)

\* datetime.strptime of a date text: the date, or NoneT where Python raises
\* ValueError.
strptime(text, format) ==
    LET year == IF format = "%Y-%m-%d" THEN text[1] ELSE text[3]
        month == IF format = "%m-%d-%Y" THEN text[1] ELSE text[2]
        day == CASE format = "%Y-%m-%d" -> text[3]
                 [] format = "%d-%m-%Y" -> text[1]
                 [] format = "%m-%d-%Y" -> text[2]
    IN IF IsDate(year, month, day)
       THEN [year |-> year, month |-> month, day |-> day]
       ELSE NoneT

\* The text of an instant with format '%d-%m-%Y %H:%M': the day as StrFTime
\* counts it, the hour and the minute; the seconds are not printed.
StrFTimeMinutes(t) ==
    <<t \div SecsPerDay, (t % SecsPerDay) \div 3600, ((t % SecsPerDay) % 3600) \div 60>>

\* The instant such a text is read as.
StrPTimeMinutes(s) == s[1] * SecsPerDay + s[2] * 3600 + s[3] * 60

\* A record the fee form builds: the ID, the name and class of the form, the
\* amounts, and the date and the time of entry as the form prints them.
FeeData(id, student_name, class_category, month, monthly_fee, annual_charges, admission_fee, received_amount, date, entry_timestamp, academic_year) ==
    [ID |-> id, Student_Name |-> student_name, Class_Category |-> class_category,
     Month |-> month, Monthly_Fee |-> monthly_fee,
     Annual_Charges |-> annual_charges, Admission_Fee |-> admission_fee,
     Received_Amount |-> received_amount, Date |-> date,
     Entry_Timestamp |-> entry_timestamp, Academic_Year |-> academic_year]

\* pd.DataFrame(data) of the records a form built, with the columns of Row:
\* the ID is a str.
DataFrame(data) ==
    [i \in DOMAIN data |->
        Row(StrCell(data[i].ID), data[i].Month, data[i].Monthly_Fee,
            data[i].Annual_Charges, data[i].Admission_Fee, data[i].Academic_Year,
            data[i].Date, data[i].Entry_Timestamp)]

\* pd.read_csv: a column whose every value is a string of digits is read as
\* int64, any other column as str.
read_csv(file) ==
    IF file # <<>> /\ \A i \in DOMAIN file : IsDigits(file[i].ID)
    THEN [i \in DOMAIN file |-> [file[i] EXCEPT !.ID = IntCell(file[i].ID)]]
    ELSE [i \in DOMAIN file |-> [file[i] EXCEPT !.ID = StrCell(file[i].ID)]]

\* DataFrame.to_csv: every cell by its text.
to_csv(df) == [i \in DOMAIN df |-> [df[i] EXCEPT !.ID = df[i].ID.text]]

\* df['ID'] == student_id, for one cell: an int64 never equals a str.
IdEquals(cell, student_id) == ~cell.num /\ cell.text = student_id

\* Series.sum() of a column over the rows at the given positions.
RECURSIVE SumOver(_, _, _)
SumOver(df, rows, column) ==
    IF rows = {} THEN 0
    ELSE LET i == CHOOSE j \in rows : TRUE
         IN df[i][column] + SumOver(df, rows \ {i}, column)

\* initialize_school_files: an existing ledger file is read and written back.
initialize_school_files(fl, school_name) ==
    IF ~Truthy(school_name) THEN fl
    ELSE LET csv_file == fees_csv(school_name)
         IN [fl EXCEPT ![csv_file] = to_csv(read_csv(fl[csv_file]))]

\* initialize_files: only the session of an owner touches the school files.
initialize_files(fl, ss) ==
    IF ss.authenticated /\ Truthy(ss.current_user) /\ ss.is_admin_owner
       /\ Truthy(ss.school_name)
    THEN initialize_school_files(fl, ss.school_name)
    ELSE fl

\* A write that puts the records after the rows that are in the file now.
save_to_csv_append(df, current, data) == current \o to_csv(DataFrame(data))

\* A write that leaves out the records when the file has a row with Annual
\* Charges for the student and academic year of one of them.
save_to_csv_checked(df, current, data) ==
    IF \E i \in DOMAIN data, j \in DOMAIN current :
           /\ data[i].Annual_Charges # 0 /\ current[j].Annual_Charges # 0
           /\ data[i].ID = current[j].ID
           /\ data[i].Academic_Year = current[j].Academic_Year
    THEN current
    ELSE to_csv(df \o DataFrame(data))

\* save_to_csv, the write: the file becomes the rows read earlier followed by
\* the records; the rows now in the file play no part.
save_to_csv_write(df, current, data) == to_csv(df \o DataFrame(data))

\* save_to_csv of a session that nothing interrupts.
save_to_csv(fl, school_name, data) ==
    LET csv_file == fees_csv(school_name)
    IN [fl EXCEPT ![csv_file] = save_to_csv_write(read_csv(fl[csv_file]), fl[csv_file], data)]

\* The format pandas takes a column of date texts to have: that of the first
\* text, with the month before the day when both readings are dates.
GuessFormat(text) ==
    IF text[1] > 31 THEN "%Y-%m-%d"
    ELSE IF text[1] <= 12 THEN "%m-%d-%Y"
    ELSE "%d-%m-%Y"

\* pd.to_datetime(df['Date']).dt.strftime('%d-%m-%Y') inside try/except: every
\* text is read with the format of the first one and printed day first; when
\* a text does not fit that format pandas raises and the column stays.
ReformatDate(df) ==
    LET format == GuessFormat(df[1].Date)
        dates == [i \in DOMAIN df |-> strptime(df[i].Date, format)]
    IN IF df = <<>> \/ \E i \in DOMAIN df : dates[i] = NoneT
       THEN df
       ELSE [i \in DOMAIN df |-> [df[i] EXCEPT !.Date = strftime(dates[i], "%d-%m-%Y")]]

\* Whether a text of an instant has the seconds, as the fee form prints it.
HasSeconds(text) == Len(text) = 2

\* The same for Entry Timestamp, printed with '%d-%m-%Y %H:%M'. The day of
\* an instant is one number here, so a text without seconds is read back as
\* the same day.
ReformatEntryTimestamp(df) ==
    IF df = <<>> \/ \E i \in DOMAIN df :
                       HasSeconds(df[i].Entry_Timestamp) # HasSeconds(df[1].Entry_Timestamp)
    THEN df
    ELSE [i \in DOMAIN df |->
             IF HasSeconds(df[i].Entry_Timestamp)
             THEN [df[i] EXCEPT !.Entry_Timestamp =
                       StrFTimeMinutes(StrPTime(df[i].Entry_Timestamp))]
             ELSE [df[i] EXCEPT !.Entry_Timestamp =
                       StrFTimeMinutes(StrPTimeMinutes(df[i].Entry_Timestamp))]]

\* load_data: the table of the session's school, Date and Entry Timestamp
\* printed anew.
load_data(fl, school_name) ==
    ReformatEntryTimestamp(ReformatDate(read_csv(fl[fees_csv(school_name)])))

\* update_data: the file is overwritten with the table.
update_data(fl, school_name, updated_df) ==
    [fl EXCEPT ![fees_csv(school_name)] = to_csv(updated_df)]

check_annual_admission_paid(fl, school_name, student_id, academic_year) ==
    LET df == load_data(fl, school_name)
        student_records == {i \in DOMAIN df : /\ IdEquals(df[i].ID, student_id)
                                              /\ df[i].Academic_Year = academic_year}
    IN IF df = <<>> THEN <<FALSE, FALSE>>
       ELSE <<SumOver(df, student_records, "Annual_Charges") > 0,
              SumOver(df, student_records, "Admission_Fee") > 0>>

get_unpaid_months(fl, school_name, student_id) ==
    LET df == load_data(fl, school_name)
        paid_months == {df[i].Month : i \in {j \in DOMAIN df :
                            IdEquals(df[j].ID, student_id) /\ df[j].Monthly_Fee > 0}}
    IN IF df = <<>> \/ student_id = NoneT THEN all_months
       ELSE SelectSeq(all_months, LAMBDA month : month \notin paid_months)


\* ---------------------------------------------------------------------
\* The fee-profile file
\* ---------------------------------------------------------------------

\* The fee-profile file of a session: that of its school name.
student_fees_json(school_name) == AdminFiles[school_name].student_fees_json

\* The fee-profile files there can be.
JsonFiles == {AdminFiles[sn].student_fees_json : sn \in LedgerSchools}

\* load_student_fees: the dict in the file; the empty dict when the session
\* has no school name, os.path.exists(None) raising inside the try.
load_student_fees(fl, school_name) ==
    IF ~Truthy(school_name) THEN <<>> ELSE fl[student_fees_json(school_name)]

\* save_student_fees: the file is overwritten with the dict; without a school
\* name open(None, 'w') raises inside the try and nothing is written.
save_student_fees(fl, school_name, fees_data) ==
    IF ~Truthy(school_name) THEN fl
    ELSE [fl EXCEPT ![student_fees_json(school_name)] = fees_data]

\* fees_data[student_id] = details
SetItem(fees_data, student_id, details) ==
    [k \in (DOMAIN fees_data) \cup {student_id} |->
        IF k = student_id THEN details ELSE fees_data[k]]

\* A pop that leaves the dict as it is.
PopNothing(fees_data, student_id) == fees_data

\* fees_data.pop(student_id, None) and del fees_data[student_id]
Pop(fees_data, student_id) ==
    [k \in (DOMAIN fees_data) \ {student_id} |-> fees_data[k]]

\* The dict stored for a student.
Details(student_name, class_category, monthly_fee, annual_charges, admission_fee, updated_at) ==
    [student_name |-> student_name, class_category |-> class_category,
     monthly_fee |-> monthly_fee, annual_charges |-> annual_charges,
     admission_fee |-> admission_fee, updated_at |-> updated_at]

\* authenticate_user, its last step: the session of an admin that was let in
\* has its school files initialized.
LoginFiles(fl, ss) ==
    IF ss.authenticated /\ ss.is_admin THEN initialize_school_files(fl, ss.school_name)
    ELSE fl
\* ---------------------------------------------------------------------
\* State
\* ---------------------------------------------------------------------

\* users: users.json.  session_state: the login part of st.session_state.
\* now: the clock.  result: what the last handler reported.
\* files: the ledger file of each school.  form_state: for each browser
\* session, the fee-form part of st.session_state and the script run it has
\* under way; session_state is the login of session "s1", and in the
\* specifications with two sessions that of both, two logins of one account.
VARIABLES users, session_state, now, result, files, form_state

vars == <<users, session_state, now, result, files, form_state>>

Sessions == {"s1", "s2"}

\* The fee-form keys as the top of the script sets them, and no script run
\* under way.
FormInit == [current_student_id |-> NoneT,
             available_months |-> <<>>,
             last_saved_records |-> NoneT,
             pc |-> "idle",
             df |-> <<>>,
             data |-> <<>>,
             users_read |-> <<>>,
             payment_date |-> NoneT]

\* Outcome of the last handler: what it returned and the message it showed.
Result(op, ok, msg) == [op |-> op, ok |-> ok, msg |-> msg]

MsgExpired == "Your free trial has expired. Please contact support."

MsgBadEmail == "Please use a valid Gmail address (e.g., username@gmail.com)"

MsgDupEmail == "This Gmail address is already registered. Please use a different Gmail address or log in."

MsgNoSchool == "School name is required for Admin Owner registration."

MsgCreated == "User created successfully"

MsgInvalid == "Invalid username or password"

MsgRequired == "Please fill all required fields (*)"

MsgMismatch == "Passwords do not match!"

MsgOwnAccount == "You cannot delete your own account!"

MsgOwner == "Cannot delete Admin Owner account!"

MsgNotFound == "User not found!"

MsgEmptyPw == "Password cannot be empty!"

MsgOwnerReset == "Only Admin Owner can reset their own password!"

Init ==
    /\ users = [u \in {} |-> 0]
    /\ session_state = [authenticated |-> FALSE,
                        current_user |-> None,
                        is_admin |-> FALSE,
                        is_admin_owner |-> FALSE,
                        school_name |-> None,
                        trial_remaining |-> NoneT,
                        show_login |-> FALSE]
    /\ now = 0
    /\ result = Result("none", TRUE, "")
    /\ files = [f \in CsvFiles \cup JsonFiles |-> <<>>]
    /\ form_state = [s \in Sessions |-> FormInit]

\* ---------------------------------------------------------------------
\* authenticate_user
\* ---------------------------------------------------------------------

\* Expiry that already holds at the stored end of the trial.
TrialExpiredAtEnd(t, trial_end_date) == t >= trial_end_date

\* Expiry that is never reported.
TrialExpiredNever(t, trial_end_date) == FALSE

\* The comparison that decides expiry: datetime.now() > trial_end_date.
TrialExpired(t, trial_end_date) == t > trial_end_date

\* authenticate_user(username, password) run on store us and session ss at
\* time t: the value returned, the message shown and the session left.
authenticate_user(us, ss, t, username, password) ==
    IF username \in DOMAIN us /\ verify_password(us[username].password, password)
    THEN LET s1 == [ss EXCEPT !.authenticated = TRUE,
                              !.current_user = username,
                              !.is_admin = us[username].is_admin,
                              !.is_admin_owner = us[username].is_admin_owner,
                              !.school_name = us[username].school_name]
             trial_end == us[username].trial_end
         IN IF trial_end # NoneT
            THEN IF TrialExpired(t, StrPTime(trial_end))
                 THEN [ok |-> FALSE, msg |-> MsgExpired,
                       session |-> [s1 EXCEPT !.authenticated = FALSE]]
                 ELSE [ok |-> TRUE, msg |-> "",
                       session |-> [s1 EXCEPT !.trial_remaining =
                                        <<StrPTime(trial_end) - t>>]]
            ELSE [ok |-> TRUE, msg |-> "",
                  session |-> [s1 EXCEPT !.trial_remaining = NoneT]]
    ELSE [ok |-> FALSE, msg |-> "", session |-> ss]

\* ---------------------------------------------------------------------
\* create_user
\* ---------------------------------------------------------------------

\* The user store after users[username] = record.
StoreRecord(us, username, record) ==
    [u \in (DOMAIN us) \cup {username} |-> IF u = username THEN record ELSE us[u]]

\* A create_user that does not look for the email among the accounts.
create_user_any_email(us, ss, t, username, password, email, school_name, is_admin, is_admin_owner) ==
    IF ~validate_email(email)
    THEN [ok |-> FALSE, msg |-> MsgBadEmail, users |-> us, session |-> ss]
    ELSE IF is_admin_owner /\ ~Truthy(school_name)
    THEN [ok |-> FALSE, msg |-> MsgNoSchool, users |-> us, session |-> ss]
    ELSE LET record ==
                 [password |-> hash_password(password),
                  is_admin |-> is_admin,
                  is_admin_owner |-> is_admin_owner,
                  email |-> email,
                  school_name |->
                      IF is_admin_owner THEN school_name
                      ELSE IF ss.current_user \in DOMAIN us
                           THEN us[ss.current_user].school_name
                           ELSE None,
                  created_at |-> StrFTime(t),
                  trial_start |-> StrFTime(t),
                  trial_end |-> StrFTime(t + TimeDelta(TrialDays)),
                  created_by |-> IF Truthy(ss.current_user)
                                 THEN ss.current_user ELSE "system"]
         IN [ok |-> TRUE, msg |-> MsgCreated,
             users |-> StoreRecord(us, username, record),
             session |-> IF is_admin_owner /\ Truthy(school_name)
                         THEN [ss EXCEPT !.school_name = school_name]
                         ELSE ss]

\* create_user(...) run on store us and session ss at time t: the pair
\* returned, the store written and the session left.
create_user(us, ss, t, username, password, email, school_name, is_admin, is_admin_owner) ==
    IF ~validate_email(email)
    THEN [ok |-> FALSE, msg |-> MsgBadEmail, users |-> us, session |-> ss]
    ELSE IF \E u \in DOMAIN us : us[u].email = email
    THEN [ok |-> FALSE, msg |-> MsgDupEmail, users |-> us, session |-> ss]
    ELSE IF is_admin_owner /\ ~Truthy(school_name)
    THEN [ok |-> FALSE, msg |-> MsgNoSchool, users |-> us, session |-> ss]
    ELSE LET record ==
                 [password |-> hash_password(password),
                  is_admin |-> is_admin,
                  is_admin_owner |-> is_admin_owner,
                  email |-> email,
                  school_name |->
                      IF is_admin_owner THEN school_name
                      ELSE IF ss.current_user \in DOMAIN us
                           THEN us[ss.current_user].school_name
                           ELSE None,
                  created_at |-> StrFTime(t),
                  trial_start |-> StrFTime(t),
                  trial_end |-> StrFTime(t + TimeDelta(TrialDays)),
                  created_by |-> IF Truthy(ss.current_user)
                                 THEN ss.current_user ELSE "system"]
         IN [ok |-> TRUE, msg |-> MsgCreated,
             users |-> StoreRecord(us, username, record),
             session |-> IF is_admin_owner /\ Truthy(school_name)
                         THEN [ss EXCEPT !.school_name = school_name]
                         ELSE ss]

\* ---------------------------------------------------------------------
\* Handlers
\* ---------------------------------------------------------------------

\* home_page: the "Sign Up for Free Trial / Login" button.
ShowLogin ==
    /\ ~session_state.authenticated
    /\ ~session_state.show_login
    /\ session_state' = [session_state EXCEPT !.show_login = TRUE]
    /\ UNCHANGED <<users, now, result, files, form_state>>

\* login_page: the login form.
Login(username, password) ==
    /\ ~session_state.authenticated
    /\ session_state.show_login
    /\ LET a == authenticate_user(users, session_state, now, username, password)
       IN /\ session_state' = a.session
          /\ result' = Result("login", a.ok,
                              IF a.ok THEN "" ELSE IF a.msg # "" THEN a.msg ELSE MsgInvalid)
    /\ files' = initialize_files(LoginFiles(files, session_state'), session_state')
    /\ UNCHANGED <<users, now, form_state>>

\* login_page: the sign-up form.
SignUp(new_username, new_email, new_password, confirm_password, school_name, is_admin) ==
    /\ ~session_state.authenticated
    /\ session_state.show_login
    /\ IF \/ new_username = "" \/ new_password = "" \/ new_email = EmailEmpty
          \/ (is_admin /\ school_name = "")
       THEN /\ result' = Result("signup", FALSE, MsgRequired)
            /\ UNCHANGED <<users, session_state>>
       ELSE IF new_password # confirm_password
       THEN /\ result' = Result("signup", FALSE, MsgMismatch)
            /\ UNCHANGED <<users, session_state>>
       ELSE LET c == create_user(users, session_state, now, new_username, new_password,
                                 new_email, IF is_admin THEN school_name ELSE None,
                                 is_admin, is_admin)
            IN IF c.ok
               THEN LET s1 == [c.session EXCEPT !.school_name =
                                   IF is_admin THEN school_name ELSE None]
                        a == authenticate_user(c.users, s1, now, new_username, new_password)
                    IN /\ users' = c.users
                       /\ session_state' = a.session
                       /\ result' = Result("signup", TRUE, c.msg)
               ELSE /\ result' = Result("signup", FALSE, c.msg)
                    /\ users' = c.users
                    /\ session_state' = c.session
    /\ UNCHANGED <<now, form_state>>
    /\ files' = initialize_files(files, session_state')

\* A listing that is not filtered by creator.
VisibleUsersAll(us, ss) == DOMAIN us

\* The accounts user_management lists for the session: those it created
\* and its own.
VisibleUsers(us, ss) ==
    {u \in DOMAIN us : us[u].created_by = ss.current_user \/ u = ss.current_user}

\* user_management is on the menu of admin sessions only.
InUserManagement ==
    /\ session_state.authenticated
    /\ session_state.is_admin

\* user_management: the "Create New User" form.
AdminCreateUser(new_username, new_email, new_password, confirm_password, is_admin) ==
    /\ InUserManagement
    /\ IF new_username = "" \/ new_password = "" \/ new_email = EmailEmpty
       THEN /\ result' = Result("create", FALSE, MsgRequired)
            /\ UNCHANGED <<users, session_state>>
       ELSE IF new_password # confirm_password
       THEN /\ result' = Result("create", FALSE, MsgMismatch)
            /\ UNCHANGED <<users, session_state>>
       ELSE LET c == create_user(users, session_state, now, new_username, new_password,
                                 new_email, None, is_admin, FALSE)
            IN /\ users' = c.users
               /\ session_state' = c.session
               /\ result' = Result("create", c.ok, c.msg)
    /\ UNCHANGED <<now, form_state>>
    /\ files' = initialize_files(files, session_state')

\* The user store after del users[username].
RemoveRecord(us, username) == [u \in (DOMAIN us) \ {username} |-> us[u]]

\* A delete handler without the owner check.
DeleteRefusedNever(us, user_to_delete) == FALSE

\* Whether the delete handler refuses the selected account as an owner.
DeleteRefused(us, user_to_delete) ==
    user_to_delete \in DOMAIN us /\ us[user_to_delete].is_admin_owner

\* user_management: the "Delete User" button.
DeleteUser(user_to_delete) ==
    /\ InUserManagement
    /\ user_to_delete \in VisibleUsers(users, session_state)
    /\ IF user_to_delete = session_state.current_user
       THEN /\ result' = Result("delete", FALSE, MsgOwnAccount)
            /\ UNCHANGED users
       ELSE IF DeleteRefused(users, user_to_delete)
       THEN /\ result' = Result("delete", FALSE, MsgOwner)
            /\ UNCHANGED users
       ELSE IF user_to_delete \in DOMAIN users
       THEN /\ users' = RemoveRecord(users, user_to_delete)
            /\ result' = Result("delete", TRUE, "")
       ELSE /\ result' = Result("delete", FALSE, MsgNotFound)
            /\ UNCHANGED users
    /\ UNCHANGED <<session_state, now, form_state>>
    /\ files' = initialize_files(files, session_state')

\* user_management: the "Reset Password" form.
ResetPassword(selected_user, new_password, confirm_password) ==
    /\ InUserManagement
    /\ selected_user \in VisibleUsers(users, session_state)
    /\ IF new_password = ""
       THEN /\ result' = Result("reset", FALSE, MsgEmptyPw)
            /\ UNCHANGED users
       ELSE IF new_password # confirm_password
       THEN /\ result' = Result("reset", FALSE, MsgMismatch)
            /\ UNCHANGED users
       ELSE IF users[selected_user].is_admin_owner /\ ~session_state.is_admin_owner
       THEN /\ result' = Result("reset", FALSE, MsgOwnerReset)
            /\ UNCHANGED users
       ELSE /\ users' = [users EXCEPT ![selected_user].password = hash_password(new_password)]
            /\ result' = Result("reset", TRUE, "")
    /\ UNCHANGED <<session_state, now, form_state>>
    /\ files' = initialize_files(files, session_state')

\* main_app: the sidebar "Logout" button.
Logout ==
    /\ session_state.authenticated
    /\ session_state' = [session_state EXCEPT !.authenticated = FALSE,
                                             !.current_user = None,
                                             !.is_admin = FALSE,
                                             !.is_admin_owner = FALSE,
                                             !.school_name = None,
                                             !.trial_remaining = NoneT]
    /\ result' = Result("logout", TRUE, "")
    /\ form_state' = [form_state EXCEPT !["s1"] = FormInit]
    /\ UNCHANGED <<users, now, files>>

\* The instants at which the clock is read: the start, and each second from
\* the end of a trial begun at the start.
Instants == {0} \cup {TimeDelta(TrialDays) + sec : sec \in 0..MaxSec}

\* Time passes between two interactions.
Tick ==
    /\ \E t \in Instants : t > now /\ now' = t
    /\ UNCHANGED <<users, session_state, result, files, form_state>>

\* The password a new account is given; reset_password may then change it.
NewPasswords == {"pw1"}

\* What the forms are submitted with.
LoginInputs ==
    {<<u, p>> : u \in Usernames, p \in Passwords \cup {""}}

\* Complete sign-up forms, and one that asks for an owner account without
\* naming the school.
SignUpInputs ==
    {<<u, e, p, p, sn, a>> : u \in Usernames, e \in ValidEmails \cup InvalidEmails,
                             p \in NewPasswords, sn \in SchoolNames, a \in BOOLEAN}
    \cup {<<"alice", EmailA, "pw1", "pw1", "", TRUE>>}

AdminCreateInputs ==
    {<<u, e, p, p, a>> : u \in Usernames, e \in ValidEmails \cup InvalidEmails,
                         p \in NewPasswords, a \in BOOLEAN}

\* Complete reset forms, and one whose confirmation differs.
ResetInputs ==
    {<<u, p, p>> : u \in Usernames, p \in Passwords}
    \cup {<<"alice", "pw1", "pw2">>}

Next ==
    \/ ShowLogin
    \/ \E i \in LoginInputs : Login(i[1], i[2])
    \/ \E i \in SignUpInputs : SignUp(i[1], i[2], i[3], i[4], i[5], i[6])
    \/ \E i \in AdminCreateInputs : AdminCreateUser(i[1], i[2], i[3], i[4], i[5])
    \/ \E u \in Usernames : DeleteUser(u)
    \/ \E i \in ResetInputs : ResetPassword(i[1], i[2], i[3])
    \/ Logout
    \/ Tick

Spec == Init /\ [][Next]_vars

\* ---------------------------------------------------------------------
\* create_user called on its own, with every combination of arguments
\* ---------------------------------------------------------------------

\* "A@gmail.com"
EmailUpperA == <<"A", "@", "g", "m", "a", "i", "l", ".", "c", "o", "m">>

CreateUserCall(username, password, email, school_name, is_admin, is_admin_owner) ==
    /\ LET c == create_user(users, session_state, now, username, password, email,
                            school_name, is_admin, is_admin_owner)
       IN /\ users' = c.users
          /\ session_state' = c.session
          /\ result' = Result("create_user", c.ok, c.msg)
    /\ UNCHANGED <<now, form_state>>
    /\ files' = initialize_files(files, session_state')

CallEmails == ValidEmails \cup InvalidEmails \cup {EmailUpperA, EmailEmpty}

CallSchools == SchoolNames \cup {"", None}

NextCreate ==
    \/ \E u \in Usernames, p \in NewPasswords, e \in CallEmails, sn \in CallSchools,
          a \in BOOLEAN, o \in BOOLEAN : CreateUserCall(u, p, e, sn, a, o)
    \/ Tick

SpecCreate == Init /\ [][NextCreate]_vars

\* ---------------------------------------------------------------------
\* The fee-entry form
\* ---------------------------------------------------------------------

MsgNoStudent == "Please enter Student Name and select Class Category."

MsgNoMonth == "Please select a month for Monthly Fee payment."

MsgAnnualPaid == "Annual charges have already been paid for this academic year!"

MsgAdmissionPaid == "Admission fee has already been paid for this academic year!"

MsgSaved == "Fee record(s) saved successfully!"

\* The amounts the form proposes when the student has no fee profile.
default_monthly_fee == 2000

default_annual_charges == 5000

default_admission_fee == 1000

\* A main_app that is closed to a session whose trial is over.
InMainAppOnTrial(s) ==
    /\ session_state.authenticated
    /\ form_state[s].pc = "idle"
    /\ session_state.current_user \in DOMAIN users
    /\ ~TrialExpired(now, StrPTime(users[session_state.current_user].trial_end))

\* main_app runs only for a session that is logged in; a handler starts when
\* the session has no script run under way.
InMainApp(s) ==
    /\ session_state.authenticated
    /\ form_state[s].pc = "idle"

\* update_student_data, behind the "Check Student Records" button.
CheckStudentRecords(s, student_name, class_category) ==
    /\ InMainApp(s)
    /\ LET fl == initialize_files(files, session_state)
           student_id == generate_student_id(student_name, class_category)
       IN /\ files' = fl
          /\ IF student_name # ""
             THEN IF Truthy(session_state.school_name)
                  THEN /\ form_state' = [form_state EXCEPT
                              ![s].current_student_id = student_id,
                              ![s].available_months =
                                  get_unpaid_months(fl, session_state.school_name, student_id)]
                       /\ result' = Result("check", TRUE, "")
                  ELSE /\ form_state' = [form_state EXCEPT ![s].current_student_id = student_id]
                       /\ result' = Result("check", FALSE, "TypeError")
             ELSE /\ form_state' = [form_state EXCEPT ![s].current_student_id = NoneT,
                                                      ![s].available_months = <<>>]
                  /\ result' = Result("check", TRUE, "")
    /\ UNCHANGED <<users, session_state, now>>

\* A form whose monthly records carry the Received Amount that was typed.
FeeFormReceivedAsTyped(fl, ss, fs, t, student_name, class_category, signature, payment_date, fee_type, selected_month, amount, received_amount) ==
    LET student_id == fs.current_student_id
        academic_year == get_academic_year(payment_date)
        fees_data == load_student_fees(fl, ss.school_name)
        disabled == student_id \in DOMAIN fees_data /\ ~ss.is_admin
        value == CASE fee_type = "Monthly Fee" ->
                          IF disabled THEN fees_data[student_id].monthly_fee ELSE amount
                   [] fee_type = "Annual Charges" ->
                          IF disabled THEN fees_data[student_id].annual_charges ELSE amount
                   [] fee_type = "Admission Fee" ->
                          IF disabled THEN fees_data[student_id].admission_fee ELSE amount
        paid == IF student_id # NoneT
                THEN check_annual_admission_paid(fl, ss.school_name, student_id, academic_year)
                ELSE <<FALSE, FALSE>>
        annual_paid == paid[1]
        admission_paid == paid[2]
        selected_months ==
            IF student_id = NoneT THEN <<>>
            ELSE IF fee_type = "Monthly Fee"
            THEN (IF selected_month \in Range(fs.available_months)
                  THEN <<selected_month>> ELSE <<>>)
            ELSE IF fee_type = "Annual Charges"
            THEN (IF annual_paid THEN <<>> ELSE <<"ANNUAL">>)
            ELSE (IF admission_paid THEN <<>> ELSE <<"ADMISSION">>)
        monthly_fee == IF fee_type = "Monthly Fee" /\ student_id # NoneT
                          /\ fs.available_months # <<>> THEN value ELSE 0
        annual_charges == IF fee_type = "Annual Charges" /\ student_id # NoneT
                             /\ ~annual_paid THEN value ELSE 0
        admission_fee == IF fee_type = "Admission Fee" /\ student_id # NoneT
                            /\ ~admission_paid THEN value ELSE 0
        fee_records ==
            IF fee_type \in {"Annual Charges", "Admission Fee"}
            THEN <<FeeData(student_id, student_name, class_category, selected_months[1],
                           0, annual_charges, admission_fee, received_amount,
                           strftime(payment_date, "%Y-%m-%d"), StrFTime(t), academic_year)>>
            ELSE [i \in DOMAIN selected_months |->
                     FeeData(student_id, student_name, class_category, selected_months[i],
                             monthly_fee, 0, 0, received_amount,
                             strftime(payment_date, "%Y-%m-%d"), StrFTime(t), academic_year)]
    IN IF student_name = "" \/ signature = ""
       THEN [ok |-> FALSE, msg |-> MsgRequired, data |-> <<>>]
       ELSE IF student_id = NoneT
       THEN [ok |-> FALSE, msg |-> MsgNoStudent, data |-> <<>>]
       ELSE IF fee_type = "Monthly Fee" /\ selected_months = <<>>
       THEN [ok |-> FALSE, msg |-> MsgNoMonth, data |-> <<>>]
       ELSE IF fee_type = "Annual Charges" /\ annual_paid
       THEN [ok |-> FALSE, msg |-> MsgAnnualPaid, data |-> <<>>]
       ELSE IF fee_type = "Admission Fee" /\ admission_paid
       THEN [ok |-> FALSE, msg |-> MsgAdmissionPaid, data |-> <<>>]
       ELSE [ok |-> TRUE, msg |-> MsgSaved, data |-> fee_records]

\* The part of the form script that runs before anything is saved: what the
\* widgets yield, the checks of the submission, and the records it builds.
\* ok is FALSE with the message shown when the submission is refused.
FeeForm(fl, ss, fs, t, student_name, class_category, signature, payment_date, fee_type, selected_month, amount, received_amount) ==
    LET student_id == fs.current_student_id
        academic_year == get_academic_year(payment_date)
        fees_data == load_student_fees(fl, ss.school_name)
        disabled == student_id \in DOMAIN fees_data /\ ~ss.is_admin
        value == CASE fee_type = "Monthly Fee" ->
                          IF disabled THEN fees_data[student_id].monthly_fee ELSE amount
                   [] fee_type = "Annual Charges" ->
                          IF disabled THEN fees_data[student_id].annual_charges ELSE amount
                   [] fee_type = "Admission Fee" ->
                          IF disabled THEN fees_data[student_id].admission_fee ELSE amount
        paid == IF student_id # NoneT
                THEN check_annual_admission_paid(fl, ss.school_name, student_id, academic_year)
                ELSE <<FALSE, FALSE>>
        annual_paid == paid[1]
        admission_paid == paid[2]
        selected_months ==
            IF student_id = NoneT THEN <<>>
            ELSE IF fee_type = "Monthly Fee"
            THEN (IF selected_month \in Range(fs.available_months)
                  THEN <<selected_month>> ELSE <<>>)
            ELSE IF fee_type = "Annual Charges"
            THEN (IF annual_paid THEN <<>> ELSE <<"ANNUAL">>)
            ELSE (IF admission_paid THEN <<>> ELSE <<"ADMISSION">>)
        monthly_fee == IF fee_type = "Monthly Fee" /\ student_id # NoneT
                          /\ fs.available_months # <<>> THEN value ELSE 0
        annual_charges == IF fee_type = "Annual Charges" /\ student_id # NoneT
                             /\ ~annual_paid THEN value ELSE 0
        admission_fee == IF fee_type = "Admission Fee" /\ student_id # NoneT
                            /\ ~admission_paid THEN value ELSE 0
        fee_records ==
            IF fee_type \in {"Annual Charges", "Admission Fee"}
            THEN <<FeeData(student_id, student_name, class_category, selected_months[1],
                           0, annual_charges, admission_fee, received_amount,
                           strftime(payment_date, "%Y-%m-%d"), StrFTime(t), academic_year)>>
            ELSE [i \in DOMAIN selected_months |->
                     FeeData(student_id, student_name, class_category, selected_months[i],
                             monthly_fee, 0, 0, monthly_fee,
                             strftime(payment_date, "%Y-%m-%d"), StrFTime(t), academic_year)]
    IN IF student_name = "" \/ signature = ""
       THEN [ok |-> FALSE, msg |-> MsgRequired, data |-> <<>>]
       ELSE IF student_id = NoneT
       THEN [ok |-> FALSE, msg |-> MsgNoStudent, data |-> <<>>]
       ELSE IF fee_type = "Monthly Fee" /\ selected_months = <<>>
       THEN [ok |-> FALSE, msg |-> MsgNoMonth, data |-> <<>>]
       ELSE IF fee_type = "Annual Charges" /\ annual_paid
       THEN [ok |-> FALSE, msg |-> MsgAnnualPaid, data |-> <<>>]
       ELSE IF fee_type = "Admission Fee" /\ admission_paid
       THEN [ok |-> FALSE, msg |-> MsgAdmissionPaid, data |-> <<>>]
       ELSE [ok |-> TRUE, msg |-> MsgSaved, data |-> fee_records]

\* The script of the form stops at the payment history of the student when
\* the session has no school name: load_data hands None to os.path.exists,
\* which raises TypeError outside any try.
HistoryRaises(s) ==
    /\ form_state[s].current_student_id # NoneT
    /\ ~Truthy(session_state.school_name)

\* The "Save Fee Record" button, in a session that nothing interrupts.
SaveFeeRecord(s, student_name, class_category, signature, payment_date, fee_type, selected_month, amount, received_amount) ==
    /\ InMainApp(s)
    /\ LET fl == initialize_files(files, session_state)
           f == FeeForm(fl, session_state, form_state[s], now, student_name, class_category,
                        signature, payment_date, fee_type, selected_month, amount,
                        received_amount)
           saved == save_to_csv(fl, session_state.school_name, f.data)
       IN IF HistoryRaises(s)
          THEN /\ files' = fl
               /\ UNCHANGED form_state
               /\ result' = Result("save", FALSE, "TypeError")
          ELSE IF f.ok
          THEN /\ files' = initialize_files(saved, session_state)
               /\ form_state' = [form_state EXCEPT
                      ![s].available_months =
                          get_unpaid_months(saved, session_state.school_name,
                                            form_state[s].current_student_id),
                      ![s].last_saved_records = f.data]
               /\ result' = Result("save", TRUE, f.msg)
          ELSE /\ files' = fl
               /\ UNCHANGED form_state
               /\ result' = Result("save", FALSE, f.msg)
    /\ UNCHANGED <<users, session_state, now>>

\* The "Refresh Form" button.
RefreshForm(s) ==
    /\ InMainApp(s)
    /\ files' = initialize_files(files, session_state)
    /\ IF HistoryRaises(s)
       THEN /\ UNCHANGED form_state
            /\ result' = Result("refresh", FALSE, "TypeError")
       ELSE /\ form_state' = [form_state EXCEPT ![s].current_student_id = NoneT,
                                                ![s].available_months = <<>>]
            /\ result' = Result("refresh", TRUE, "")
    /\ UNCHANGED <<users, session_state, now>>

\* ---------------------------------------------------------------------
\* Script runs of two sessions, one file operation at a time
\* ---------------------------------------------------------------------

\* "Save Fee Record" up to the call of save_to_csv: the checks are made
\* against the ledger as it is now.
BeginSave(s, student_name, class_category, signature, payment_date, fee_type, selected_month, amount, received_amount) ==
    /\ InMainApp(s)
    /\ Truthy(session_state.school_name)
    /\ LET fl == initialize_files(files, session_state)
           f == FeeForm(fl, session_state, form_state[s], now, student_name, class_category,
                        signature, payment_date, fee_type, selected_month, amount,
                        received_amount)
       IN /\ files' = fl
          /\ IF f.ok
             THEN /\ form_state' = [form_state EXCEPT ![s].pc = "save_read",
                                                      ![s].data = f.data]
                  /\ UNCHANGED result
             ELSE /\ UNCHANGED form_state
                  /\ result' = Result("save", FALSE, f.msg)
    /\ UNCHANGED <<users, session_state, now>>

\* save_to_csv, the read of the file.
ReadCsv(s) ==
    /\ form_state[s].pc = "save_read"
    /\ form_state' = [form_state EXCEPT
           ![s].pc = "save_write",
           ![s].df = read_csv(files[fees_csv(session_state.school_name)])]
    /\ UNCHANGED <<users, session_state, now, result, files>>

\* save_to_csv, the write of the file, and what the form does once it
\* returned True.
WriteCsv(s) ==
    /\ form_state[s].pc = "save_write"
    /\ LET csv_file == fees_csv(session_state.school_name)
           saved == [files EXCEPT ![csv_file] =
                        save_to_csv_write(form_state[s].df, files[csv_file], form_state[s].data)]
       IN /\ files' = initialize_files(saved, session_state)
          /\ form_state' = [form_state EXCEPT
                 ![s].pc = "idle",
                 ![s].df = <<>>,
                 ![s].data = <<>>,
                 ![s].available_months =
                     get_unpaid_months(saved, session_state.school_name,
                                       form_state[s].current_student_id),
                 ![s].last_saved_records = form_state[s].data]
          /\ result' = Result("save", TRUE, MsgSaved)
    /\ UNCHANGED <<users, session_state, now>>

\* "View All Records" is shown to admins, and the edit form when the table has
\* rows.
InViewAllRecords(s) ==
    /\ InMainApp(s)
    /\ session_state.is_admin
    /\ Truthy(session_state.school_name)

\* The date the edit form shows for a record: its Date read day first, or
\* else year first. (datetime.now(), the last resort of the form, is for a
\* text that is no date; the ledger has none.)
edit_date_value(date) ==
    IF strptime(date, "%d-%m-%Y") # NoneT THEN strptime(date, "%d-%m-%Y")
    ELSE strptime(date, "%Y-%m-%d")

\* "Update Record" up to the call of update_data: the table is loaded and the
\* record rewritten in it with the values of the form.
BeginUpdateRecord(s, edit_index, edit_month, edit_monthly_fee, edit_annual_charges, edit_admission_fee, edit_date, edit_academic_year) ==
    /\ InViewAllRecords(s)
    /\ LET fl == initialize_files(files, session_state)
           df == load_data(fl, session_state.school_name)
       IN /\ edit_index \in DOMAIN df
          /\ files' = fl
          /\ form_state' = [form_state EXCEPT
                 ![s].pc = "update_write",
                 ![s].df = [df EXCEPT ![edit_index] =
                               Row(df[edit_index].ID, edit_month, edit_monthly_fee,
                                   edit_annual_charges, edit_admission_fee,
                                   edit_academic_year, strftime(edit_date, "%d-%m-%Y"),
                                   StrFTimeMinutes(now))]]
    /\ UNCHANGED <<users, session_state, now, result>>

\* df.drop(index=edit_index)
Drop(df, edit_index) ==
    [i \in 1..(Len(df) - 1) |-> IF i < edit_index THEN df[i] ELSE df[i + 1]]

\* "Delete Record" up to the call of update_data: the table is loaded and
\* the record dropped from it.
BeginDeleteRecord(s, edit_index) ==
    /\ InViewAllRecords(s)
    /\ LET fl == initialize_files(files, session_state)
           df == load_data(fl, session_state.school_name)
       IN /\ edit_index \in DOMAIN df
          /\ files' = fl
          /\ form_state' = [form_state EXCEPT ![s].pc = "delete_write",
                                              ![s].df = Drop(df, edit_index)]
    /\ UNCHANGED <<users, session_state, now, result>>

\* update_data, the write of the file.
WriteRecords(s) ==
    /\ form_state[s].pc \in {"update_write", "delete_write"}
    /\ files' = initialize_files(update_data(files, session_state.school_name,
                                             form_state[s].df), session_state)
    /\ form_state' = [form_state EXCEPT ![s].pc = "idle", ![s].df = <<>>]
    /\ result' = Result(IF form_state[s].pc = "update_write" THEN "update" ELSE "delete",
                        TRUE, "")
    /\ UNCHANGED <<users, session_state, now>>

\* The "Create New User" form up to the write of users.json: create_user
\* has read the file and added the record to what it read.
BeginCreateUser(s, new_username, new_email, new_password, is_admin) ==
    /\ InMainApp(s)
    /\ InUserManagement
    /\ LET c == create_user(users, session_state, now, new_username, new_password,
                            new_email, None, is_admin, FALSE)
       IN IF c.ok
          THEN /\ form_state' = [form_state EXCEPT ![s].pc = "users_write",
                                                   ![s].users_read = c.users]
               /\ UNCHANGED result
          ELSE /\ UNCHANGED form_state
               /\ result' = Result("create", FALSE, c.msg)
    /\ files' = initialize_files(files, session_state)
    /\ UNCHANGED <<users, session_state, now>>

\* create_user, the write of users.json.
WriteUsers(s) ==
    /\ form_state[s].pc = "users_write"
    /\ users' = form_state[s].users_read
    /\ form_state' = [form_state EXCEPT ![s].pc = "idle", ![s].users_read = <<>>]
    /\ result' = Result("create", TRUE, MsgCreated)
    /\ UNCHANGED <<session_state, now, files>>

\* ---------------------------------------------------------------------
\* One session at the fee-entry form
\* ---------------------------------------------------------------------

EmptyUsers == [u \in {} |-> 0]

\* The login part of st.session_state before anyone logs in, on the login page.
LoggedOut == [authenticated |-> FALSE, current_user |-> None, is_admin |-> FALSE,
              is_admin_owner |-> FALSE, school_name |-> None,
              trial_remaining |-> NoneT, show_login |-> TRUE]

\* "c@gmail.com"
EmailC == <<"c", "@", "g", "m", "a", "i", "l", ".", "c", "o", "m">>

\* users.json after two owners signed up at the start, for two schools whose
\* names differ: "alice" for "Green Valley", "system" for "green-valley".
TwoSchools ==
    LET c1 == create_user(EmptyUsers, LoggedOut, 0, "alice", "pw1", EmailA,
                          "Green Valley", TRUE, TRUE)
        c2 == create_user(c1.users, LoggedOut, 0, "system", "pw1", EmailB,
                          "green-valley", TRUE, TRUE)
    IN c2.users

\* ... and after "alice" created the sub-admin account "clerk" for her school.
SchoolUsers ==
    LET a == authenticate_user(TwoSchools, LoggedOut, 0, "alice", "pw1")
    IN create_user(TwoSchools, a.session, 0, "clerk", "pw1", EmailC, None, TRUE, FALSE).users

\* "clerk" is logged in at the start and stays so.
InitLedger ==
    /\ users = SchoolUsers
    /\ session_state = authenticate_user(SchoolUsers, LoggedOut, 0, "clerk", "pw1").session
    /\ now = 0
    /\ result = Result("none", TRUE, "")
    /\ files = [f \in CsvFiles \cup JsonFiles |-> <<>>]
    /\ form_state = [s \in Sessions |-> FormInit]

\* The most rows a ledger file is let grow to.
MaxRows == 2

\* What the fee form is submitted with: the name and class of a student, or
\* no name.
CheckInputs == Students \cup {<<"", "KGI">>}

\* The months offered for a monthly payment.
PickMonths == {"APRIL", "MAY"}

\* The dates a payment is dated: the last day of March and the first of April.
PaymentDates == {dt \in Dates : dt.year = MaxYear /\ (\/ dt.month = 3 /\ dt.day = 31
                                                      \/ dt.month = 4 /\ dt.day = 1)}

\* Complete forms of each fee type with the proposed amount, and one form
\* without the signature.
SaveInputs ==
    {<<"Ali Khan", "Class 3", "clerk", dt, ft[1], m, ft[2], ft[2]>> :
        dt \in PaymentDates,
        ft \in {<<"Monthly Fee", default_monthly_fee>>,
                <<"Annual Charges", default_annual_charges>>,
                <<"Admission Fee", default_admission_fee>>},
        m \in PickMonths}
    \cup {<<"Ali Khan", "Class 3", "", dt, "Annual Charges", "APRIL",
             default_annual_charges, default_annual_charges>> : dt \in PaymentDates}

\* The ledger of the session's school has room for another row.
HasRoom ==
    /\ Truthy(session_state.school_name)
    /\ Len(files[fees_csv(session_state.school_name)]) < MaxRows

NextLedger ==
    \/ \E i \in CheckInputs : CheckStudentRecords("s1", i[1], i[2])
    \/ \E i \in SaveInputs :
          HasRoom /\ SaveFeeRecord("s1", i[1], i[2], i[3], i[4], i[5], i[6], i[7], i[8])
    \/ RefreshForm("s1")

SpecLedger == InitLedger /\ [][NextLedger]_vars

\* ---------------------------------------------------------------------
\* Two sessions of one account, interleaved at the file operations
\* ---------------------------------------------------------------------

\* "b0@gmail.com" and "c0@gmail.com"
EmailB0 == <<"b", "0", "@", "g", "m", "a", "i", "l", ".", "c", "o", "m">>

EmailC0 == <<"c", "0", "@", "g", "m", "a", "i", "l", ".", "c", "o", "m">>

\* Both sessions look up the same student, whose ID has letters.
ConcChecks == {<<"Ali Khan", "Class 3">>}

\* An annual payment dated the last day of March.
ConcSaves ==
    {<<"Ali Khan", "Class 3", "clerk", dt, "Annual Charges", "APRIL",
       default_annual_charges, default_annual_charges>> :
        dt \in {d \in PaymentDates : d.month = 3}}

\* The account each session fills in the "Create New User" form for.
ConcCreates == [s \in Sessions |-> IF s = "s1" THEN <<"bob", EmailB0, "pw1", FALSE>>
                                              ELSE <<"carol", EmailC0, "pw1", FALSE>>]

\* The record edits, made in the second session: the Annual Charges of a
\* record are set, the other fields stay as the form shows them.
UpdateRecord(s, edit_index, edit_annual_charges) ==
    /\ Truthy(session_state.school_name)
    /\ edit_index \in DOMAIN files[fees_csv(session_state.school_name)]
    /\ LET record == files[fees_csv(session_state.school_name)][edit_index]
       IN BeginUpdateRecord(s, edit_index, record.Month, record.Monthly_Fee,
                            edit_annual_charges, record.Admission_Fee,
                            edit_date_value(load_data(files, session_state.school_name)[edit_index].Date),
                            record.Academic_Year)

NextConc ==
    \/ \E s \in Sessions, i \in ConcChecks : CheckStudentRecords(s, i[1], i[2])
    \/ \E s \in Sessions, i \in ConcSaves :
          HasRoom /\ BeginSave(s, i[1], i[2], i[3], i[4], i[5], i[6], i[7], i[8])
    \/ \E s \in Sessions : ReadCsv(s)
    \/ \E s \in Sessions : WriteCsv(s)
    \/ \E n \in 1..(MaxRows + 1), a \in {0, default_annual_charges} :
          UpdateRecord("s2", n, a)
    \/ \E s \in Sessions : WriteRecords(s)
    \/ \E s \in Sessions :
          BeginCreateUser(s, ConcCreates[s][1], ConcCreates[s][2], ConcCreates[s][3],
                          ConcCreates[s][4])
    \/ \E s \in Sessions : WriteUsers(s)

SpecConc == InitLedger /\ [][NextConc]_vars

\* ---------------------------------------------------------------------
\* The academic year of every date
\* ---------------------------------------------------------------------

\* The "Payment Status" lines of the form, for the date in the date widget.
ShowPaymentStatus(s, payment_date) ==
    /\ InMainApp(s)
    /\ form_state' = [form_state EXCEPT ![s].payment_date = payment_date]
    /\ result' = Result("academic_year", TRUE, get_academic_year(payment_date))
    /\ files' = initialize_files(files, session_state)
    /\ UNCHANGED <<users, session_state, now>>

NextYear == \E dt \in Dates : ShowPaymentStatus("s1", dt)

SpecYear == InitLedger /\ [][NextYear]_vars

\* ---------------------------------------------------------------------
\* A session and the end of its trial
\* ---------------------------------------------------------------------

InitTrial ==
    /\ users = SchoolUsers
    /\ session_state = LoggedOut
    /\ now = 0
    /\ result = Result("none", TRUE, "")
    /\ files = [f \in CsvFiles \cup JsonFiles |-> <<>>]
    /\ form_state = [s \in Sessions |-> FormInit]

TrialLogins == {<<"clerk", "pw1">>, <<"clerk", "pw2">>}

NextTrial ==
    \/ \E i \in TrialLogins : Login(i[1], i[2])
    \/ Logout
    \/ Tick
    \/ \E i \in ConcChecks : CheckStudentRecords("s1", i[1], i[2])
    \/ \E i \in SaveInputs :
          HasRoom /\ SaveFeeRecord("s1", i[1], i[2], i[3], i[4], i[5], i[6], i[7], i[8])

SpecTrial == InitTrial /\ [][NextTrial]_vars

\* ---------------------------------------------------------------------
\* Set Student Fees
\* ---------------------------------------------------------------------

MsgSaveFailed == "Failed to save fee settings"

\* "Set Student Fees" is in the menu of admins only.
InSetStudentFees(s) ==
    /\ InMainApp(s)
    /\ session_state.is_admin

\* set_student_fees: the "Save Fee Settings" form.
SetFees(s, student_name, class_category, monthly_fee, annual_charges, admission_fee) ==
    /\ InSetStudentFees(s)
    /\ LET fl == initialize_files(files, session_state)
           student_id == generate_student_id(student_name, class_category)
           fees_data == load_student_fees(fl, session_state.school_name)
           details == Details(student_name, class_category, monthly_fee, annual_charges,
                              admission_fee, StrFTime(now))
       IN IF student_name = ""
          THEN /\ files' = fl
               /\ result' = Result("set_fees", FALSE, MsgRequired)
          ELSE IF Truthy(session_state.school_name)
          THEN /\ files' = initialize_files(
                               save_student_fees(fl, session_state.school_name,
                                                 SetItem(fees_data, student_id, details)),
                               session_state)
               /\ result' = Result("set_fees", TRUE, <<student_name, class_category>>)
          ELSE /\ files' = fl
               /\ result' = Result("set_fees", FALSE, MsgSaveFailed)
    /\ UNCHANGED <<users, session_state, now, form_state>>

\* set_student_fees: the "Update Fees" button, for the student picked among
\* the keys of the store.
UpdateFees(s, student_to_edit, edit_name, edit_class, edit_monthly_fee, edit_annual_charges, edit_admission_fee) ==
    /\ InSetStudentFees(s)
    /\ Truthy(session_state.school_name)
    /\ LET fl == initialize_files(files, session_state)
           new_student_id == generate_student_id(edit_name, edit_class)
           fees_data == load_student_fees(fl, session_state.school_name)
           popped == IF new_student_id # student_to_edit
                     THEN Pop(fees_data, student_to_edit) ELSE fees_data
           details == Details(edit_name, edit_class, edit_monthly_fee, edit_annual_charges,
                              edit_admission_fee, StrFTime(now))
       IN /\ student_to_edit \in DOMAIN fees_data
          /\ IF edit_name = ""
             THEN /\ files' = fl
                  /\ result' = Result("update_fees", FALSE, MsgRequired)
             ELSE /\ files' = initialize_files(
                                  save_student_fees(fl, session_state.school_name,
                                                    SetItem(popped, new_student_id, details)),
                                  session_state)
                  /\ result' = Result("update_fees", TRUE, <<edit_name, edit_class>>)
    /\ UNCHANGED <<users, session_state, now, form_state>>

\* set_student_fees: the "Delete Fees" button.
DeleteFees(s, student_to_edit) ==
    /\ InSetStudentFees(s)
    /\ Truthy(session_state.school_name)
    /\ LET fl == initialize_files(files, session_state)
           fees_data == load_student_fees(fl, session_state.school_name)
       IN /\ student_to_edit \in DOMAIN fees_data
          /\ files' = initialize_files(
                          save_student_fees(fl, session_state.school_name,
                                            Pop(fees_data, student_to_edit)),
                          session_state)
          /\ result' = Result("delete_fees", TRUE, "")
    /\ UNCHANGED <<users, session_state, now, form_state>>

\* The amounts a profile is given: the proposed ones and lower ones.
MonthlyFees == {default_monthly_fee, 1500}

AnnualCharges == {default_annual_charges, 4000}

\* The forms of "Set Student Fees": a student with the amounts, and one form
\* without the name.
FeesInputs ==
    {<<st[1], st[2], m, a, default_admission_fee>> :
        st \in Students, m \in MonthlyFees, a \in AnnualCharges}
    \cup {<<"", "KGI", default_monthly_fee, default_annual_charges, default_admission_fee>>}

NextFees ==
    \/ \E i \in FeesInputs : SetFees("s1", i[1], i[2], i[3], i[4], i[5])
    \/ \E k \in StudentIds, i \in FeesInputs :
          UpdateFees("s1", k, i[1], i[2], i[3], i[4], i[5])
    \/ \E k \in StudentIds : DeleteFees("s1", k)

SpecFees == InitLedger /\ [][NextFees]_vars

\* ---------------------------------------------------------------------
\* An admin and a user who is not one
\* ---------------------------------------------------------------------

\* users.json after "alice" also created the account "teacher", not an admin,
\* for her school.
StaffUsers ==
    LET a == authenticate_user(SchoolUsers, LoggedOut, 0, "alice", "pw1")
    IN create_user(SchoolUsers, a.session, 0, "teacher", "pw1", EmailB0, None, FALSE, FALSE).users

InitAccess ==
    /\ users = StaffUsers
    /\ session_state = LoggedOut
    /\ now = 0
    /\ result = Result("none", TRUE, "")
    /\ files = [f \in CsvFiles \cup JsonFiles |-> <<>>]
    /\ form_state = [s \in Sessions |-> FormInit]

AccessLogins == {<<"clerk", "pw1">>, <<"teacher", "pw1">>}

\* The student of the forms: the one whose ID has digits only and begins
\* with 0.
AccessStudent == <<"Hassan Ali", "KGI">>

\* Monthly payments dated the first of April.
AccessSaves ==
    {<<AccessStudent[1], AccessStudent[2], "clerk", dt, "Monthly Fee", m,
       default_monthly_fee, default_monthly_fee>> :
        dt \in {d \in PaymentDates : d.month = 4}, m \in PickMonths}

\* The record edits: the month of a record is set, the other fields stay as
\* the form shows them.
UpdateMonth(s, edit_index, edit_month) ==
    /\ Truthy(session_state.school_name)
    /\ edit_index \in DOMAIN files[fees_csv(session_state.school_name)]
    /\ LET record == load_data(files, session_state.school_name)[edit_index]
       IN BeginUpdateRecord(s, edit_index, edit_month, record.Monthly_Fee,
                            record.Annual_Charges, record.Admission_Fee,
                            edit_date_value(record.Date), record.Academic_Year)

NextAccess ==
    \/ \E i \in AccessLogins : Login(i[1], i[2])
    \/ Logout
    \/ CheckStudentRecords("s1", AccessStudent[1], AccessStudent[2])
    \/ \E i \in AccessSaves :
          HasRoom /\ SaveFeeRecord("s1", i[1], i[2], i[3], i[4], i[5], i[6], i[7], i[8])
    \/ \E n \in 1..(MaxRows + 1) : UpdateMonth("s1", n, "JUNE")
    \/ \E n \in 1..(MaxRows + 1) : BeginDeleteRecord("s1", n)
    \/ WriteRecords("s1")
    \/ SetFees("s1", AccessStudent[1], AccessStudent[2], default_monthly_fee,
               default_annual_charges, default_admission_fee)
    \/ UpdateFees("s1", generate_student_id(AccessStudent[1], AccessStudent[2]),
                  AccessStudent[1], AccessStudent[2], 1500,
                  default_annual_charges, default_admission_fee)
    \/ DeleteFees("s1", generate_student_id(AccessStudent[1], AccessStudent[2]))

SpecAccess == InitAccess /\ [][NextAccess]_vars

\* ---------------------------------------------------------------------
\* A session without a school name
\* ---------------------------------------------------------------------

\* The sign-up forms: "alice" without the "Register as Admin Owner" box, whose
\* account gets no school name, and "system" as the owner of a school.
NoSchoolSignUps ==
    {<<"alice", EmailA, "pw1", "pw1", "Green Valley", FALSE>>,
     <<"system", EmailB, "pw1", "pw1", "Green Valley", TRUE>>}

NoSchoolLogins == {<<"alice", "pw1">>, <<"system", "pw1">>}

\* Monthly payments for April, dated either day.
NoSchoolSaves ==
    {<<"Ali Khan", "Class 3", "clerk", dt, "Monthly Fee", "APRIL",
       default_monthly_fee, default_monthly_fee>> : dt \in PaymentDates}

NextNoSchool ==
    \/ ShowLogin
    \/ \E i \in NoSchoolSignUps : SignUp(i[1], i[2], i[3], i[4], i[5], i[6])
    \/ \E i \in NoSchoolLogins : Login(i[1], i[2])
    \/ Logout
    \/ \E i \in CheckInputs : CheckStudentRecords("s1", i[1], i[2])
    \/ \E i \in NoSchoolSaves :
          /\ HasRoom \/ ~Truthy(session_state.school_name)
          /\ SaveFeeRecord("s1", i[1], i[2], i[3], i[4], i[5], i[6], i[7], i[8])
    \/ RefreshForm("s1")

SpecNoSchool == Init /\ [][NextNoSchool]_vars

\* ---------------------------------------------------------------------
\* Owners and their schools
\* ---------------------------------------------------------------------

\* The sign-up forms: either username with either Gmail address and either
\* school name, with or without the "Register as Admin Owner" box.
OwnerSignUps ==
    {<<u, e, "pw1", "pw1", sn, a>> :
        u \in Usernames, e \in ValidEmails, sn \in LedgerSchools, a \in BOOLEAN}

OwnerLogins == {<<u, "pw1">> : u \in Usernames}

\* The "Create New User" forms of an admin.
OwnerCreates == {<<u, e, "pw1", "pw1", FALSE>> : u \in Usernames, e \in ValidEmails}

NextOwner ==
    \/ ShowLogin
    \/ \E i \in OwnerSignUps : SignUp(i[1], i[2], i[3], i[4], i[5], i[6])
    \/ \E i \in OwnerLogins : Login(i[1], i[2])
    \/ \E i \in OwnerCreates : AdminCreateUser(i[1], i[2], i[3], i[4], i[5])
    \/ \E u \in Usernames : DeleteUser(u)
    \/ \E u \in Usernames : ResetPassword(u, "pw1", "pw1")
    \/ Logout

SpecOwner == Init /\ [][NextOwner]_vars

\* ---------------------------------------------------------------------
\* The record view of an admin
\* ---------------------------------------------------------------------

\* Monthly payments of the proposed amount, dated either day.
RecordSaves ==
    {<<"Ali Khan", "Class 3", "clerk", dt, "Monthly Fee", m,
       default_monthly_fee, default_monthly_fee>> : dt \in PaymentDates, m \in PickMonths}

NextRecords ==
    \/ \E i \in ConcChecks : CheckStudentRecords("s1", i[1], i[2])
    \/ \E i \in RecordSaves :
          HasRoom /\ SaveFeeRecord("s1", i[1], i[2], i[3], i[4], i[5], i[6], i[7], i[8])
    \/ \E n \in 1..(MaxRows + 1) : UpdateMonth("s1", n, "JUNE")
    \/ \E n \in 1..(MaxRows + 1) : BeginDeleteRecord("s1", n)
    \/ WriteRecords("s1")
    \/ Tick

SpecRecords == InitLedger /\ [][NextRecords]_vars

\* ---------------------------------------------------------------------
\* The fee form with every fee type and amount
\* ---------------------------------------------------------------------

\* Forms of each fee type, with the proposed amount or none, the payment
\* dated either day; the Received Amount typed is a part payment of 500 or,
\* for annual charges and admission, the amount itself.
FormInputs ==
    {<<"Ali Khan", "Class 3", "clerk", dt, "Monthly Fee", m, a, 500>> :
        dt \in PaymentDates, m \in PickMonths, a \in {default_monthly_fee, 0}}
    \cup {<<"Ali Khan", "Class 3", "clerk", dt, "Annual Charges", "APRIL", a, r>> :
             dt \in PaymentDates, a \in {default_annual_charges, 0},
             r \in {default_annual_charges, 500}}
    \cup {<<"Ali Khan", "Class 3", "clerk", dt, "Admission Fee", "APRIL", a, r>> :
             dt \in PaymentDates, a \in {default_admission_fee, 0},
             r \in {default_admission_fee, 500}}

NextForm ==
    \/ \E i \in ConcChecks : CheckStudentRecords("s1", i[1], i[2])
    \/ \E i \in FormInputs :
          HasRoom /\ SaveFeeRecord("s1", i[1], i[2], i[3], i[4], i[5], i[6], i[7], i[8])
    \/ RefreshForm("s1")

SpecForm == InitLedger /\ [][NextForm]_vars

\* ---------------------------------------------------------------------
\* Properties
\* ---------------------------------------------------------------------

\* The session fields a login establishes.
Identity(ss) == <<ss.current_user, ss.is_admin, ss.is_admin_owner, ss.school_name>>

\* The password p is the one stored for u.
PasswordOf(u, p) == u \in DOMAIN users /\ users[u].password = <<"sha256", p>>

\* Seconds of trial left to u at the present time.
Remaining(u) == (users[u].trial_end[1] * 86400 + users[u].trial_end[2]) - now

\* C1: a login with the correct password for a user whose trial_end is past
\* fails, leaves authenticated false and leaves the session's current user,
\* admin flag, admin-owner flag and school name as they were before the call.
C1_ExpiredLoginLeavesSession ==
    [][\A i \in LoginInputs :
          (PasswordOf(i[1], i[2]) /\ Remaining(i[1]) < 0)
          => (Login(i[1], i[2])
              => /\ ~result'.ok
                 /\ ~session_state'.authenticated
                 /\ Identity(session_state') = Identity(session_state))]_vars

\* C2: with a correct password, a login at a time exactly equal to the stored
\* trial_end succeeds, and a login one second later fails for trial expiry.
C2_TrialBoundary ==
    [][\A i \in LoginInputs :
          PasswordOf(i[1], i[2])
          => (Login(i[1], i[2])
              => /\ Remaining(i[1]) = 0
                    => (result'.ok /\ session_state'.authenticated
                        /\ session_state'.current_user = i[1])
                 /\ Remaining(i[1]) = -1
                    => (~result'.ok /\ ~session_state'.authenticated
                        /\ result'.msg = MsgExpired))]_vars

\* C2 witness: a login accepted at the very second the trial ends.
C2_Witness ==
    /\ result.op = "login" /\ result.ok
    /\ session_state.authenticated
    /\ session_state.current_user \in DOMAIN users
    /\ Remaining(session_state.current_user) = 0
    /\ session_state.trial_remaining = <<0>>

\* C3 as stated: a correct-password login is refused whenever the remaining
\* trial time is zero or negative and accepted whenever it is positive.
C3_ExpiredAtZero ==
    [][\A i \in LoginInputs :
          PasswordOf(i[1], i[2])
          => (Login(i[1], i[2])
              => /\ Remaining(i[1]) <= 0 => ~session_state'.authenticated
                 /\ Remaining(i[1]) > 0 => session_state'.authenticated)]_vars

\* C3 amended: a correct-password login is refused exactly when the
\* remaining trial time is negative; it is accepted when the remaining time
\* is zero or positive.
C3_ExpiredBelowZero ==
    [][\A i \in LoginInputs :
          PasswordOf(i[1], i[2])
          => (Login(i[1], i[2])
              => /\ Remaining(i[1]) < 0
                    => (~result'.ok /\ ~session_state'.authenticated)
                 /\ Remaining(i[1]) >= 0
                    => (result'.ok /\ session_state'.authenticated))]_vars

\* C3 witness: a login with the right password refused one second after the
\* trial ended.
C3_Witness ==
    /\ result.op = "login" /\ ~result.ok /\ result.msg = MsgExpired
    /\ ~session_state.authenticated
    /\ session_state.current_user \in DOMAIN users
    /\ Remaining(session_state.current_user) = -1

\* C5: a login with a username that is not stored, or with a password whose
\* hash differs from the stored one, fails and leaves every session field
\* unchanged.
C5_BadCredentialsLeaveSession ==
    [][\A i \in LoginInputs :
          ~PasswordOf(i[1], i[2])
          => (Login(i[1], i[2])
              => /\ ~result'.ok
                 /\ session_state' = session_state)]_vars

\* C5 witness: a login refused for a wrong password while the account exists.
C5_Witness ==
    /\ result.op = "login" /\ ~result.ok /\ result.msg = MsgInvalid
    /\ users # <<>>
    /\ ~session_state.authenticated
    /\ session_state.current_user = None

\* Seconds since the stored account of u began its trial.
Age(u) == now - (users[u].trial_start[1] * 86400 + users[u].trial_start[2])

\* C4: once more than 30 days have passed since a username's account was
\* created, no later step authenticates that username.
C4_ExpiredStaysRefused ==
    [][\A u \in DOMAIN users :
          Age(u) > 30 * 86400
          => ~(session_state'.authenticated /\ ~session_state.authenticated
               /\ session_state'.current_user = u)]_vars

\* The accounts a step stores or changes.
Written == {u \in DOMAIN users' : u \notin DOMAIN users \/ users'[u] # users[u]}

\* C6: a successful create_user at time t stores trial_start = t and
\* trial_end = t + 30 days (and the sign-up that made the account logs it in
\* with 30 days remaining); a login with the stored password at any time from
\* trial_start up to trial_end succeeds and reports remaining = trial_end - now.
C6_TrialWindow ==
    [][/\ (result'.op \in {"signup", "create"} /\ result'.ok /\ result'.msg = MsgCreated)
          => /\ \A u \in Written :
                  /\ users'[u].trial_start = <<now \div 86400, now % 86400>>
                  /\ users'[u].trial_end[1] * 86400 + users'[u].trial_end[2]
                        = now + 30 * 86400
             /\ result'.op = "signup"
                  => /\ session_state'.authenticated
                     /\ session_state'.trial_remaining = <<30 * 86400>>
       /\ \A i \in LoginInputs :
             (PasswordOf(i[1], i[2]) /\ Age(i[1]) >= 0 /\ Remaining(i[1]) >= 0)
             => (Login(i[1], i[2])
                 => /\ result'.ok
                    /\ session_state'.authenticated
                    /\ session_state'.current_user = i[1]
                    /\ session_state'.trial_remaining = <<Remaining(i[1])>>)]_vars

\* C6 witness: a login one second before the last day of the window is
\* over, reporting what is left of it.
C6_Witness ==
    /\ result.op = "login" /\ result.ok
    /\ session_state.authenticated
    /\ session_state.current_user \in DOMAIN users
    /\ Remaining(session_state.current_user) = 30 * 86400 - 1
    /\ session_state.trial_remaining = <<30 * 86400 - 1>>

\* Emails of the model that are not of the shape <local part>@gmail.com.
NotGmailShaped == {EmailYahoo, EmailEmpty}

\* C7: create_user fails and leaves the user store unchanged when the email
\* is not Gmail-shaped, when the email equals that of a stored account, and
\* when the role is AdminOwner and the school name is empty.
C7_CreateUserRejects ==
    \A u \in Usernames, p \in NewPasswords, e \in CallEmails, sn \in CallSchools,
       a \in BOOLEAN, o \in BOOLEAN :
       (\/ e \in NotGmailShaped
        \/ \E v \in DOMAIN users : users[v].email = e
        \/ (o /\ sn \in {"", None}))
       => LET c == create_user(users, session_state, now, u, p, e, sn, a, o)
          IN ~c.ok /\ c.users = users

\* C7 witness: an owner registration without a school name refused while
\* accounts exist.
C7_Witness ==
    /\ result.op = "create_user" /\ ~result.ok /\ result.msg = MsgNoSchool
    /\ users # <<>>

\* C8: a stored record is changed only by reset_password, which changes only
\* its password hash, and removed only by delete_user; create_user never
\* replaces or alters an existing record.
C8_RecordsChangeOnlyByResetAndDelete ==
    [][\A u \in DOMAIN users :
          /\ u \notin DOMAIN users' => result'.op = "delete"
          /\ (u \in DOMAIN users' /\ users'[u] # users[u])
             => /\ result'.op = "reset"
                /\ [users'[u] EXCEPT !.password = users[u].password] = users[u]]_vars

\* C9: delete_user never removes an AdminOwner record: a delete request for
\* an account with the admin-owner flag is rejected with the store unchanged,
\* and every owner record is still there after any delete request.
C9_OwnerNeverDeleted ==
    [][\A t \in Usernames :
          DeleteUser(t)
          => /\ (t \in DOMAIN users /\ users[t].is_admin_owner)
                => (~result'.ok /\ users' = users)
             /\ \A u \in DOMAIN users :
                   users[u].is_admin_owner
                   => (u \in DOMAIN users' /\ users'[u] = users[u])]_vars

\* C9 witness: a delete request for another account that is an owner,
\* refused, the owner still stored.
C9_Witness ==
    /\ result.op = "delete" /\ ~result.ok /\ result.msg = MsgOwner
    /\ \E u \in DOMAIN users :
          users[u].is_admin_owner /\ u # session_state.current_user

\* C10: a reset_password or delete_user request in the session of user s
\* changes or removes account t only if t is s or t's creator field is s.
C10_OnlyOwnOrCreated ==
    [][(result'.op \in {"reset", "delete"}
        /\ \/ \E t \in Usernames : DeleteUser(t)
           \/ \E i \in ResetInputs : ResetPassword(i[1], i[2], i[3]))
       => \A t \in DOMAIN users :
             (t \notin DOMAIN users' \/ users'[t] # users[t])
             => \/ t = session_state.current_user
                \/ users[t].created_by = session_state.current_user]_vars

\* C10 witness: a session has deleted an account that it created.
C10_Witness ==
    /\ result.op = "delete" /\ result.ok
    /\ session_state.current_user \in DOMAIN users
    /\ DOMAIN users = {session_state.current_user}


\* ---------------------------------------------------------------------
\* Properties of the ledger
\* ---------------------------------------------------------------------

\* The ledger file of the session's school.
Ledger == files[fees_csv(session_state.school_name)]

\* The rows of a ledger file recorded for a student in an academic year.
RowsOf(file, id, academic_year) ==
    {i \in DOMAIN file : file[i].ID = id /\ file[i].Academic_Year = academic_year}

RECURSIVE ColumnSum(_, _, _)
ColumnSum(file, rows, column) ==
    IF rows = {} THEN 0
    ELSE LET i == CHOOSE j \in rows : TRUE
         IN file[i][column] + ColumnSum(file, rows \ {i}, column)

AcademicYears == {get_academic_year(dt) : dt \in Dates}

\* C11: a step of a session leaves the ledger of every school with another
\* name as it was.
C11_SchoolsPartitioned ==
    [][\A sn \in LedgerSchools :
          sn # session_state.school_name => files'[fees_csv(sn)] = files[fees_csv(sn)]]_vars

\* The months for which some ledger row of the student has a positive
\* Monthly Fee.
PaidMonths(file, id) ==
    {file[i].Month : i \in {j \in DOMAIN file : file[j].ID = id /\ file[j].Monthly_Fee > 0}}

\* C12: the unpaid months of a student are the twelve months, April to March,
\* without the months some ledger row of that student has a positive Monthly
\* Fee for.
C12_UnpaidMonths ==
    \A id \in StudentIds :
        get_unpaid_months(files, session_state.school_name, id) =
            SelectSeq(all_months, LAMBDA month : month \notin PaidMonths(Ledger, id))

\* The submission that a step of the fee form was, if it was one.
IsSave(i) ==
    /\ result'.op = "save"
    /\ SaveFeeRecord("s1", i[1], i[2], i[3], i[4], i[5], i[6], i[7], i[8])

\* C13: an Annual Charges (Admission Fee) submission for a student and an
\* academic year whose recorded Annual Charges (Admission Fee) sum is
\* positive is refused and leaves the ledger as it was.
C13_SecondPaymentRefused ==
    [][\A i \in SaveInputs :
          LET id == form_state["s1"].current_student_id
              rows == RowsOf(Ledger, id, get_academic_year(i[4]))
          IN /\ IsSave(i)
             /\ id # NoneT
             /\ \/ i[5] = "Annual Charges" /\ ColumnSum(Ledger, rows, "Annual_Charges") > 0
                \/ i[5] = "Admission Fee" /\ ColumnSum(Ledger, rows, "Admission_Fee") > 0
             => ~result'.ok /\ files' = files]_vars

\* C14: in the ledger one session fills in through the fee form, a student
\* has in an academic year at most one row with nonzero Annual Charges and at
\* most one with nonzero Admission Fee.
C14_OneAnnualOneAdmission ==
    \A id \in StudentIds, ay \in AcademicYears :
        /\ Cardinality({i \in RowsOf(Ledger, id, ay) : Ledger[i].Annual_Charges # 0}) <= 1
        /\ Cardinality({i \in RowsOf(Ledger, id, ay) : Ledger[i].Admission_Fee # 0}) <= 1

\* C17: a submission that is saved leaves the ledger as the rows it had,
\* unchanged, followed by the saved records.
C17_AppendKeepsRows ==
    [][result'.op = "save" /\ result'.ok
          => files'[fees_csv(session_state.school_name)] =
                 Ledger \o to_csv(DataFrame(form_state'["s1"].last_saved_records))]_vars

\* C18: check_annual_admission_paid says for a student and an academic year
\* whether the Annual Charges, and whether the Admission Fee, of the ledger
\* rows of that student and year sum to more than zero.
C18_PaidFlags ==
    \A id \in StudentIds, ay \in AcademicYears :
        check_annual_admission_paid(files, session_state.school_name, id, ay) =
            <<ColumnSum(Ledger, RowsOf(Ledger, id, ay), "Annual_Charges") > 0,
              ColumnSum(Ledger, RowsOf(Ledger, id, ay), "Admission_Fee") > 0>>

\* The rows a session's records are written as.
CsvRows(data) == to_csv(DataFrame(data))

\* Two rows of a student and an academic year with nonzero Annual Charges.
TwoAnnualRows(file) ==
    \E i, j \in DOMAIN file :
        /\ i < j
        /\ file[i].ID = file[j].ID /\ file[i].Academic_Year = file[j].Academic_Year
        /\ file[i].Annual_Charges # 0 /\ file[j].Annual_Charges # 0

\* C15: nothing at the write enforces the one-annual-payment rule: the file
\* write of a submission that passed its check ends the ledger with its
\* records, and the write of an edit leaves the table as edited, whatever the
\* ledger holds by then.
C15_RuleNotEnforcedAtStorage ==
    [][\A s \in Sessions :
          /\ form_state[s].pc = "save_write" /\ form_state'[s].pc = "idle"
                => LET after == files'[fees_csv(session_state.school_name)]
                       n == Len(form_state[s].data)
                   IN /\ Len(after) >= n
                      /\ SubSeq(after, Len(after) - n + 1, Len(after)) =
                             CsvRows(form_state[s].data)
          /\ form_state[s].pc = "update_write" /\ form_state'[s].pc = "idle"
                => files'[fees_csv(session_state.school_name)] = to_csv(form_state[s].df)]_vars

\* Both sessions had an Annual Charges record saved for the same student and
\* academic year, and the ledger has both rows.
C15_Witness ==
    /\ TwoAnnualRows(Ledger)
    /\ \A s \in Sessions :
          /\ form_state[s].last_saved_records # NoneT
          /\ form_state[s].last_saved_records[1].Annual_Charges # 0
          /\ ~IsDigits(form_state[s].last_saved_records[1].ID)
    /\ form_state["s1"].last_saved_records[1].ID = form_state["s2"].last_saved_records[1].ID
    /\ form_state["s1"].last_saved_records[1].Academic_Year =
           form_state["s2"].last_saved_records[1].Academic_Year

\* C16: a write is of what the session read and nothing else: after the
\* ledger write of a session the file has the rows the session read and its
\* records, and after its write of users.json the store has the accounts it
\* read and the new one, however many rows or accounts there were just before.
C16_WriteOfWhatWasRead ==
    [][\A s \in Sessions :
          /\ form_state[s].pc = "save_write" /\ form_state'[s].pc = "idle"
                => Len(files'[fees_csv(session_state.school_name)]) =
                       Len(form_state[s].df) + Len(form_state[s].data)
          /\ form_state[s].pc = "users_write" /\ form_state'[s].pc = "idle"
                => DOMAIN users' = DOMAIN form_state[s].users_read]_vars

\* Both sessions were told their record was saved and the ledger has one row;
\* and "carol" is in users.json while the other session is about to write the
\* store it read before she was.
C16_Witness ==
    /\ \A s \in Sessions : form_state[s].last_saved_records # NoneT
    /\ Len(Ledger) = 1
    /\ "carol" \in DOMAIN users
    /\ form_state["s1"].pc = "users_write"
    /\ "carol" \notin DOMAIN form_state["s1"].users_read

\* "<a>-<b>"
YearLabel(a, b) == Str(a) \o <<"-">> \o Str(b)

\* C19: the academic year of a date of year y is "y-(y+1)" from April on and
\* "(y-1)-y" before.
C19_AcademicYear ==
    result.op = "academic_year" =>
        LET date == form_state["s1"].payment_date
        IN result.msg = IF date.month \in 4..12
                        THEN YearLabel(date.year, date.year + 1)
                        ELSE YearLabel(date.year - 1, date.year)

\* The year was shown for the first of April and came out as starting then.
C19_Witness ==
    /\ result.op = "academic_year"
    /\ form_state["s1"].payment_date = [year |-> MaxYear, month |-> 4, day |-> 1]
    /\ result.msg = YearLabel(MaxYear, MaxYear + 1)

\* The end of the trial of the account that is logged in.
TrialEnd == StrPTime(users[session_state.current_user].trial_end)

\* C20: only Logout ends a session, and a session that is logged in can have a
\* fee record saved whatever the time is.
C20_SessionOutlivesTrial ==
    /\ [][session_state.authenticated /\ result'.op # "logout"
             => session_state'.authenticated]_vars
    /\ [](session_state.authenticated /\ HasRoom
             => ENABLED (\E i \in SaveInputs :
                            SaveFeeRecord("s1", i[1], i[2], i[3], i[4], i[5], i[6], i[7], i[8])))

\* A session that logged in before the end of its trial had a record saved
\* after it.
C20_Witness ==
    /\ session_state.authenticated
    /\ session_state.trial_remaining # NoneT
    /\ form_state["s1"].last_saved_records # NoneT
    /\ StrPTime(form_state["s1"].last_saved_records[1].Entry_Timestamp) > TrialEnd


\* ---------------------------------------------------------------------
\* The fee-profile store
\* ---------------------------------------------------------------------

\* The fee-profile store of the session's school.
Profiles == files[student_fees_json(session_state.school_name)]

\* C22: every key of a fee-profile store is generate_student_id of the name
\* and class stored under it; and an accepted "Update Fees" leaves the profile
\* under the key of the name and class it was given, with the key it was
\* picked by gone from the store unless that is the same key.
C22_KeysAreDerivedIds ==
    /\ [](\A f \in JsonFiles : \A k \in DOMAIN files[f] :
             k = generate_student_id(files[f][k].student_name, files[f][k].class_category))
    /\ [][result'.op = "update_fees" /\ result'.ok
             => LET new_student_id == generate_student_id(result'.msg[1], result'.msg[2])
                    before == files[student_fees_json(session_state.school_name)]
                    after == files'[student_fees_json(session_state.school_name)]
                IN /\ new_student_id \in DOMAIN after
                   /\ after[new_student_id].student_name = result'.msg[1]
                   /\ after[new_student_id].class_category = result'.msg[2]
                   /\ \E student_to_edit \in DOMAIN before :
                         DOMAIN after = (DOMAIN before \ {student_to_edit})
                                            \cup {new_student_id}]_vars

\* An update for "Ali Khan" of "Class 9" was accepted, and the store has his
\* profile under the ID of that name and class and no other profile of his.
C22_Witness ==
    /\ result.op = "update_fees" /\ result.ok
    /\ result.msg = <<"Ali Khan", "Class 9">>
    /\ generate_student_id("Ali Khan", "Class 9") \in DOMAIN Profiles
    /\ generate_student_id("Ali Khan", "Class 3") \notin DOMAIN Profiles
    /\ generate_student_id("Hassan Ali", "KGI") \in DOMAIN Profiles

\* C21: while the session is not an admin's, the fee-profile stores stay as
\* they are, and a ledger either stays as it is or gets rows after the ones
\* it has, which stay as they are.
C21_OnlyAdminsChangeStoredData ==
    [][~session_state.is_admin /\ ~session_state'.is_admin
          => /\ \A f \in JsonFiles : files'[f] = files[f]
             /\ \A f \in CsvFiles :
                   /\ Len(files'[f]) >= Len(files[f])
                   /\ SubSeq(files'[f], 1, Len(files[f])) = files[f]]_vars

\* ---------------------------------------------------------------------
\* Reads without a file
\* ---------------------------------------------------------------------

\* C23: in a session without a school name, "Check Student Records" for a
\* student comes back without an error, with all twelve months as the unpaid
\* months.
C23_ReadWithoutFileYieldsNoData ==
    [][(/\ ~Truthy(session_state.school_name)
        /\ result'.op = "check"
        /\ form_state'["s1"].current_student_id # NoneT)
          => /\ result'.ok
             /\ form_state'["s1"].available_months = all_months]_vars

\* ---------------------------------------------------------------------
\* The user store
\* ---------------------------------------------------------------------

\* C24: no two accounts of the user store have the same email.
C24_EmailsUnique ==
    \A u \in DOMAIN users, v \in DOMAIN users : u # v => users[u].email # users[v].email

\* The store has two accounts, and a create_user was just refused for an
\* email that one of them has.
C24_Witness ==
    /\ Cardinality(DOMAIN users) = 2
    /\ result.op \in {"signup", "create"}
    /\ ~result.ok
    /\ result.msg = MsgDupEmail

\* C25: an account with the admin-owner flag has the admin flag and a school
\* name, and as long as the account is in the store its school name stays
\* the same.
C25_OwnerKeepsSchool ==
    /\ [](\A u \in DOMAIN users :
             users[u].is_admin_owner
                => users[u].is_admin /\ Truthy(users[u].school_name))
    /\ [][\A u \in DOMAIN users :
             users[u].is_admin_owner /\ u \in DOMAIN users'
                => users'[u].school_name = users[u].school_name]_vars

\* ---------------------------------------------------------------------
\* The record view
\* ---------------------------------------------------------------------

\* C26: the overwrite that ends "Update Record" leaves the ledger with the
\* same number of rows, all but one of them as they were, every column
\* alike; the overwrite that ends "Delete Record" leaves the ledger as it was
\* but for one row that is gone.
C26_OtherRowsUntouched ==
    [][/\ form_state["s1"].pc = "update_write" /\ form_state'["s1"].pc = "idle"
          => /\ Len(Ledger') = Len(Ledger)
             /\ \E edit_index \in DOMAIN Ledger :
                   \A i \in DOMAIN Ledger : i # edit_index => Ledger'[i] = Ledger[i]
       /\ form_state["s1"].pc = "delete_write" /\ form_state'["s1"].pc = "idle"
          => \E edit_index \in DOMAIN Ledger : Ledger' = Drop(Ledger, edit_index)]_vars

\* ---------------------------------------------------------------------
\* The rows of the fee-entry form
\* ---------------------------------------------------------------------

\* C27: every record a submission saved has as its ID generate_student_id of
\* the Student Name and Class Category of that record.
C27_IdOfNameAndClass ==
    [][result'.op = "save" /\ result'.ok
          => \A i \in DOMAIN form_state'["s1"].last_saved_records :
                LET fee_data == form_state'["s1"].last_saved_records[i]
                IN fee_data.ID = generate_student_id(fee_data.Student_Name,
                                                     fee_data.Class_Category)]_vars

\* C28: the ledger the fee form fills in has no two rows with a positive
\* Monthly Fee for the same ID and month.
C28_OneRowPerMonth ==
    \A i \in DOMAIN Ledger, j \in DOMAIN Ledger :
        /\ i # j
        /\ Ledger[i].Monthly_Fee > 0 /\ Ledger[j].Monthly_Fee > 0
        /\ Ledger[i].ID = Ledger[j].ID
        => Ledger[i].Month # Ledger[j].Month

\* C29: a month for which the ledger has a row of the student with a positive
\* Monthly Fee, of whatever academic year, is not among the student's unpaid
\* months, and a Monthly Fee submission for that month is refused and leaves
\* the ledger as it was, whatever the date of the payment.
C29_PaidMonthStaysPaid ==
    /\ [](\A id \in StudentIds : \A i \in DOMAIN Ledger :
             Ledger[i].ID = id /\ Ledger[i].Monthly_Fee > 0
                => Ledger[i].Month \notin
                       Range(get_unpaid_months(files, session_state.school_name, id)))
    /\ [][\A i \in SaveInputs :
             (/\ IsSave(i)
              /\ i[5] = "Monthly Fee"
              /\ \E n \in DOMAIN Ledger :
                    /\ Ledger[n].ID = form_state["s1"].current_student_id
                    /\ Ledger[n].Month = i[6]
                    /\ Ledger[n].Monthly_Fee > 0)
             => ~result'.ok /\ files' = files]_vars

\* C30: a saved submission of the fee form appends one row to the ledger, of
\* the fee type submitted and of no other: a monthly row has one of the
\* twelve months, no Annual Charges, no Admission Fee and its Monthly Fee as
\* Received Amount; an annual row has Month "ANNUAL", no Monthly Fee and no
\* Admission Fee; an admission row has Month "ADMISSION", no Monthly Fee and
\* no Annual Charges; and the row has the payment date of the form as its
\* Date and the academic year of that date as its Academic Year.
C30_OneFeeKindPerRow ==
    [][\A i \in FormInputs :
          (/\ result'.op = "save" /\ result'.ok
           /\ SaveFeeRecord("s1", i[1], i[2], i[3], i[4], i[5], i[6], i[7], i[8]))
          => /\ Len(form_state'["s1"].last_saved_records) = 1
             /\ Len(Ledger') = Len(Ledger) + 1
             /\ LET fee_data == form_state'["s1"].last_saved_records[1]
                    row == Ledger'[Len(Ledger')]
                IN /\ row = to_csv(DataFrame(<<fee_data>>))[1]
                   /\ row.Date = strftime(i[4], "%Y-%m-%d")
                   /\ row.Academic_Year = get_academic_year(i[4])
                   /\ i[5] = "Monthly Fee"
                         => /\ row.Month \in Range(all_months)
                            /\ row.Annual_Charges = 0
                            /\ row.Admission_Fee = 0
                            /\ fee_data.Received_Amount = row.Monthly_Fee
                   /\ i[5] = "Annual Charges"
                         => /\ row.Month = "ANNUAL"
                            /\ row.Monthly_Fee = 0
                            /\ row.Admission_Fee = 0
                   /\ i[5] = "Admission Fee"
                         => /\ row.Month = "ADMISSION"
                            /\ row.Monthly_Fee = 0
                            /\ row.Annual_Charges = 0]_vars

\* A monthly record was saved with a Monthly Fee of 2000, on a form that had
\* 500 as the Received Amount, after an annual record: the ledger has both.
C30_Witness ==
    /\ result.op = "save" /\ result.ok
    /\ form_state["s1"].last_saved_records # NoneT
    /\ form_state["s1"].last_saved_records[1].Monthly_Fee = default_monthly_fee
    /\ form_state["s1"].last_saved_records[1].Received_Amount = default_monthly_fee
    /\ Len(Ledger) = 2
    /\ Ledger[1].Month = "ANNUAL"
    /\ Ledger[2].Month \in Range(all_months)
====
